---- MODULE Spec2Model ----
(***************************************************************************)
(* The users CRUD service: router -> validateRequest -> UserController ->  *)
(* UserService -> UserRepository -> the MySQL table `users`.               *)
(*                                                                         *)
(* Every HTTP request is a chain of suspending steps: the code between two *)
(* awaited pool.query calls runs without interruption (Node's event loop), *)
(* and each SQL statement is executed atomically by the database.  One     *)
(* action of the model is therefore "the database executes the pending     *)
(* statement of client c and c's continuation runs up to the next          *)
(* statement (or to the response)".  Two clients interleave at statement   *)
(* granularity.                                                            *)
(***************************************************************************)
EXTENDS Integers, Sequences, FiniteSets, TLC

(***************************************************************************)
(* Bounds of the model.                                                    *)
(***************************************************************************)
\* AUTO_INCREMENT values handed out: ids 1..MaxUsers.
MaxUsers == 2
\* HTTP requests accepted in one behaviour.
MaxRequests == 3
\* Seconds the database clock may advance (TIMESTAMP has 1 s resolution).
MaxClock == 1
\* Concurrent HTTP requests in flight.
Clients == {1, 2}

(***************************************************************************)
(* Program constants.                                                      *)
(***************************************************************************)
\* name VARCHAR(100), email VARCHAR(100)
VarcharWidth == 100
\* z.string().min(2, ...)
NameMinLength == 2
\* http-status-codes
OK == 200
CREATED == 201
NO_CONTENT == 204
BAD_REQUEST == 400
NOT_FOUND == 404
CONFLICT == 409
INTERNAL_SERVER_ERROR == 500

(***************************************************************************)
(* Strings.  TLC gives Len, SubSeq and \o on strings.                      *)
(***************************************************************************)
CharAt(s, i) == SubSeq(s, i, i)

RECURSIVE CountChar(_, _)
CountChar(s, c) ==
    IF Len(s) = 0 THEN 0
    ELSE (IF CharAt(s, 1) = c THEN 1 ELSE 0) + CountChar(SubSeq(s, 2, Len(s)), c)

RECURSIVE IndexOf(_, _)
\* String.prototype.indexOf, 1-based; 0 when absent
IndexOf(s, c) ==
    IF Len(s) = 0 THEN 0
    ELSE IF CharAt(s, 1) = c THEN 1
    ELSE LET r == IndexOf(SubSeq(s, 2, Len(s)), c) IN IF r = 0 THEN 0 ELSE r + 1

StartsWith(s, prefix) ==
    Len(s) >= Len(prefix) /\ SubSeq(s, 1, Len(prefix)) = prefix

RECURSIVE Contains(_, _)
Contains(s, part) ==
    IF Len(s) < Len(part) THEN FALSE
    ELSE StartsWith(s, part) \/ Contains(SubSeq(s, 2, Len(s)), part)

RECURSIVE Join(_, _)
\* Array.prototype.join
Join(parts, sep) ==
    IF Len(parts) = 0 THEN ""
    ELSE IF Len(parts) = 1 THEN parts[1]
    ELSE parts[1] \o sep \o Join(Tail(parts), sep)

LowerOf(c) == IF c = "A" THEN "a" ELSE IF c = "B" THEN "b" ELSE c

RECURSIVE Lower(_)
\* case folding of a case-insensitive collation, on the letters the inputs use
Lower(s) ==
    IF Len(s) = 0 THEN ""
    ELSE LowerOf(CharAt(s, 1)) \o Lower(SubSeq(s, 2, Len(s)))

DigitChars == {"0", "1", "2", "3", "4", "5", "6", "7", "8", "9"}
DigitVal(c) ==
    CASE c = "0" -> 0 [] c = "1" -> 1 [] c = "2" -> 2 [] c = "3" -> 3 [] c = "4" -> 4
      [] c = "5" -> 5 [] c = "6" -> 6 [] c = "7" -> 7 [] c = "8" -> 8 [] c = "9" -> 9

RECURSIVE LeadingDigits(_)
LeadingDigits(s) ==
    IF Len(s) = 0 \/ CharAt(s, 1) \notin DigitChars THEN 0
    ELSE 1 + LeadingDigits(SubSeq(s, 2, Len(s)))

RECURSIVE DecimalValue(_, _)
DecimalValue(s, acc) ==
    IF Len(s) = 0 THEN acc
    ELSE DecimalValue(SubSeq(s, 2, Len(s)), 10 * acc + DigitVal(CharAt(s, 1)))

\* Not-a-Number, the result of parsing a string with no leading digit.  The
\* inputs are unsigned, so a negative number stands for it: like NaN it
\* equals no id of the table.
NaN == 0 - 1

\* Number.parseInt(s, 10) on an unsigned string: the leading run of digits
ParseInt(s) ==
    LET n == LeadingDigits(s) IN
    IF n = 0 THEN NaN ELSE DecimalValue(SubSeq(s, 1, n), 0)

\* Number(s) on an unsigned string without blanks: every character a digit
ToNumber(s) ==
    IF Len(s) > 0 /\ LeadingDigits(s) = Len(s) THEN DecimalValue(s, 0) ELSE NaN

IsNaN(n) == n = NaN

(***************************************************************************)
(* Values.                                                                 *)
(*   A JSON request body is [has, name, email, age, extra]: `has` holds    *)
(*   the keys among name/email/age the body carries (body.k !== undefined  *)
(*   iff k \in has), `extra` its other keys; a field outside `has` is      *)
(*   padded with "" or 0 and never read.                                   *)
(*   A nullable INT is <<>> (NULL) or <<n>>; the ages of the model fit the *)
(*   INT column.                                                           *)
(***************************************************************************)
Body(has, name, email, age, extra) ==
    [has |-> has, name |-> name, email |-> email, age |-> age, extra |-> extra]

\* 102 characters: more than the name column holds
LongName ==
    "Maximiliana-Alexandrina-Theodora-Wilhelmina-Konstantina-Bartholomea-Evangelina von Hohenzollern-Sigmar"

NoBody == Body({}, "", "", 0, {})

Request(route, id, body) == [route |-> route, id |-> id, body |-> body]

\* the :id segments of the URLs, as text: the ids the table can hand out,
\* a non-positive number and a word
RowIds == {ToString(i) : i \in 1..MaxUsers}
BadIds == {"0", "abc"}

CreateBodies ==
    { Body({"name", "email", "age"}, "Al", "a@x.com", 30, {}),
      Body({"name", "email"}, "Bo", "A@x.com", 0, {}),
      Body({"name", "email", "age"}, "Bo", "b@x.com", 30, {}),
      Body({"name", "email"}, LongName, "b@x.com", 0, {}),
      Body({"name", "email", "age"}, "A", "nope", 0 - 1, {}),
      Body({"email"}, "", "a@x.com", 0, {}) }

UpdateBodies ==
    { Body({"age"}, "", "", 41, {}),
      Body({"email"}, "", "a@x.com", 0, {}),
      Body({"name", "email"}, "Bo", "b@x.com", 0, {"id", "createdAt"}),
      Body({"name"}, LongName, "", 0, {}),
      Body({}, "", "", 0, {}),
      Body({}, "", "", 0, {"id"}),
      Body({"name"}, "A", "", 0, {}) }

\* the requests the clients send
Requests ==
    {Request("getUsers", "", NoBody)}
    \cup {Request("getUser", i, NoBody) : i \in RowIds \cup BadIds}
    \cup {Request("deleteUser", i, NoBody) : i \in RowIds \cup {"abc"}}
    \cup {Request("createUser", "", b) : b \in CreateBodies}
    \cup {Request("updateUser", i, b) : i \in RowIds, b \in UpdateBodies}
    \cup {Request("updateUser", "abc", NoBody)}

(***************************************************************************)
(* ServiceResponse: the envelope.  responseObject is tagged:               *)
(*   [kind |-> "null"], [kind |-> "user", user |-> u],                     *)
(*   [kind |-> "list", users |-> <<u1, ...>>].                             *)
(***************************************************************************)
Null == [kind |-> "null"]
UserPayload(u) == [kind |-> "user", user |-> u]
ListPayload(us) == [kind |-> "list", users |-> us]

ServiceResponse(success, message, responseObject, statusCode) ==
    [success |-> success, message |-> message,
     responseObject |-> responseObject, statusCode |-> statusCode]

Success(message, responseObject, statusCode) ==
    ServiceResponse(TRUE, message, responseObject, statusCode)

Failure(message, responseObject, statusCode) ==
    ServiceResponse(FALSE, message, responseObject, statusCode)

(***************************************************************************)
(* The validation schemas.  Each yields the messages of the issues zod     *)
(* reports, in the order of the schema's keys; <<>> means the input        *)
(* parses.                                                                 *)
(***************************************************************************)
\* z.string().email(): one "@", a local part, a domain with an inner dot
IsEmail(s) ==
    LET at == IndexOf(s, "@")
        domain == SubSeq(s, at + 1, Len(s))
        dot == IndexOf(domain, ".")
    IN  /\ CountChar(s, "@") = 1
        /\ at > 1
        /\ dot > 1
        /\ dot < Len(domain)

\* commonValidations.id: numeric text, then a positive number
IdIssues(id) ==
    IF IsNaN(ToNumber(id)) THEN <<"ID must be a numeric value">>
    ELSE IF ToNumber(id) <= 0 THEN <<"ID must be a positive number">>
    ELSE <<>>

NameIssues(body) ==
    IF Len(body.name) < NameMinLength THEN <<"Name must be at least 2 characters">> ELSE <<>>

EmailIssues(body) ==
    IF ~IsEmail(body.email) THEN <<"Invalid email format">> ELSE <<>>

AgeIssues(body) ==
    IF "age" \notin body.has THEN <<>>
    ELSE IF body.age < 0 THEN <<"Age must be a positive number">>
    ELSE <<>>

GetUserSchema(req) == IdIssues(req.id)

CreateUserSchema(req) ==
    LET body == req.body IN
    (IF "name" \notin body.has THEN <<"Required">> ELSE NameIssues(body))
    \o (IF "email" \notin body.has THEN <<"Required">> ELSE EmailIssues(body))
    \o AgeIssues(body)

\* an update schema without its refinement
AtLeastOneFieldDropped(body) == <<>>

\* .refine((data) => Object.keys(data).length > 0): data is the parsed
\* object, from which zod has stripped the keys the schema does not name
AtLeastOneField(body) ==
    IF body.has = {} THEN <<"At least one field must be provided for update">> ELSE <<>>

UpdateUserSchema(req) ==
    LET body == req.body IN
    IdIssues(req.id)
    \o (IF "name" \in body.has THEN NameIssues(body) ELSE <<>>)
    \o (IF "email" \in body.has THEN EmailIssues(body) ELSE <<>>)
    \o AgeIssues(body)
    \o AtLeastOneField(body)

DeleteUserSchema(req) == GetUserSchema(req)

\* the schema userRouter binds to the route; GET /users has none
SchemaIssues(req) ==
    CASE req.route = "getUsers" -> <<>>
      [] req.route = "getUser" -> GetUserSchema(req)
      [] req.route = "createUser" -> CreateUserSchema(req)
      [] req.route = "updateUser" -> UpdateUserSchema(req)
      [] req.route = "deleteUser" -> DeleteUserSchema(req)

\* a validateRequest whose catch block goes on to next()
ValidateRequestLenient(req) == <<>>

\* validateRequest: <<>> when schema.parse succeeds and next() is called,
\* else the failure envelope handed to handleServiceResponse
ValidateRequest(req) ==
    LET errors == SchemaIssues(req) IN
    IF errors = <<>> THEN <<>>
    ELSE <<Failure("Invalid input: " \o Join(errors, ", "), Null, BAD_REQUEST)>>

\* handleServiceResponse: response.status(statusCode).send(serviceResponse).
\* Express sends no body with a 204 or 304 status.
HandleServiceResponse(serviceResponse) ==
    [status |-> serviceResponse.statusCode,
     body |-> IF serviceResponse.statusCode \in {NO_CONTENT, 304}
              THEN <<>> ELSE <<serviceResponse>>]

(***************************************************************************)
(* The table users and its statements.  A stored row is                    *)
(*   [id, name, email, age, createdAt, updatedAt]                          *)
(* with age <<>> (NULL) or <<n>> and the timestamps in seconds.  The table *)
(* is a function from the ids in use to their rows.                        *)
(* Two settings of the server decide what the definition of the table      *)
(* leaves open:                                                            *)
(*   strict    sql_mode holds STRICT_TRANS_TABLES: a text that does not    *)
(*             fit its column is an error; otherwise it is cut to fit;     *)
(*   collation "ci" compares the UNIQUE email ignoring case (the default   *)
(*             collations), "bin" byte for byte.                           *)
(***************************************************************************)
Rows(table) == {table[i] : i \in DOMAIN table}

Min(a, b) == IF a < b THEN a ELSE b

FitsText(s) == Len(s) <= VarcharWidth
StoreText(s) == IF FitsText(s) THEN s ELSE SubSeq(s, 1, VarcharWidth)

Collate(s, collation) == IF collation = "ci" THEN Lower(s) ELSE s

\* a table whose email column was declared without UNIQUE
DuplicateEmailUnchecked(table, email, self, collation) == FALSE

\* email VARCHAR(100) NOT NULL UNIQUE: a row other than `self` holds the key
DuplicateEmail(table, email, self, collation) ==
    \E r \in Rows(table) :
        r.id # self /\ Collate(r.email, collation) = Collate(email, collation)

\* a table whose ids are max(id) + 1 of the rows it holds, not a counter
SqlInsertNextFree(table, autoInc, name, email, age, now, strict, collation) ==
    IF strict /\ ~(FitsText(name) /\ FitsText(email))
    THEN [error |-> "ER_DATA_TOO_LONG", table |-> table, autoInc |-> autoInc, insertId |-> 0]
    ELSE IF DuplicateEmail(table, StoreText(email), 0, collation)
    THEN [error |-> "ER_DUP_ENTRY", table |-> table, autoInc |-> autoInc + 1, insertId |-> 0]
    ELSE LET id == IF DOMAIN table = {} THEN 1
                   ELSE 1 + CHOOSE m \in DOMAIN table : \A k \in DOMAIN table : k <= m
             row == [id |-> id,
                     name |-> StoreText(name),
                     email |-> StoreText(email),
                     age |-> age,
                     createdAt |-> now,
                     updatedAt |-> now]
         IN [error |-> "", table |-> (id :> row) @@ table,
             autoInc |-> autoInc + 1, insertId |-> id]

\* INSERT IGNORE: a duplicate key is skipped without an error
SqlInsertIgnore(table, autoInc, name, email, age, now, strict, collation) ==
    IF DuplicateEmail(table, StoreText(email), 0, collation)
    THEN [error |-> "", table |-> table, autoInc |-> autoInc + 1, insertId |-> 0]
    ELSE LET row == [id |-> autoInc,
                     name |-> StoreText(name),
                     email |-> StoreText(email),
                     age |-> age,
                     createdAt |-> now,
                     updatedAt |-> now]
         IN [error |-> "", table |-> (autoInc :> row) @@ table,
             autoInc |-> autoInc + 1, insertId |-> autoInc]

\* INSERT INTO users (name, email, age) VALUES (?, ?, ?)
\* age is NULL when the parameter is undefined.  A duplicate key uses up
\* the AUTO_INCREMENT value (InnoDB).
SqlInsert(table, autoInc, name, email, age, now, strict, collation) ==
    IF strict /\ ~(FitsText(name) /\ FitsText(email))
    THEN [error |-> "ER_DATA_TOO_LONG", table |-> table, autoInc |-> autoInc, insertId |-> 0]
    ELSE IF DuplicateEmail(table, StoreText(email), 0, collation)
    THEN [error |-> "ER_DUP_ENTRY", table |-> table, autoInc |-> autoInc + 1, insertId |-> 0]
    ELSE LET row == [id |-> autoInc,
                     name |-> StoreText(name),
                     email |-> StoreText(email),
                     age |-> age,
                     createdAt |-> now,
                     updatedAt |-> now]
         IN [error |-> "", table |-> (autoInc :> row) @@ table,
             autoInc |-> autoInc + 1, insertId |-> autoInc]

\* SELECT * FROM users: the rows, in primary-key order
RECURSIVE RowsFrom(_, _)
RowsFrom(table, i) ==
    IF i > MaxUsers + 1 THEN <<>>
    ELSE (IF i \in DOMAIN table THEN <<table[i]>> ELSE <<>>) \o RowsFrom(table, i + 1)

SqlSelectAll(table) == RowsFrom(table, 1)

\* SELECT * FROM users WHERE id = ?
SqlSelectById(table, id) ==
    IF id \in DOMAIN table THEN <<table[id]>> ELSE <<>>

\* an UPDATE that sets all three columns, supplied or not:
\* UPDATE users SET name = ?, email = ?, age = ? WHERE id = ?
SqlUpdateAllColumns(table, id, data, now, strict, collation) ==
    IF id \notin DOMAIN table
    THEN [error |-> "", table |-> table, affectedRows |-> 0]
    ELSE LET set == [table[id] EXCEPT !.name = StoreText(data.name),
                                      !.email = StoreText(data.email),
                                      !.age = <<data.age>>,
                                      !.updatedAt = now]
         IN [error |-> "", table |-> [table EXCEPT ![id] = set], affectedRows |-> 1]

\* UPDATE users SET <the supplied fields> WHERE id = ?
\* updatedAt ... ON UPDATE CURRENT_TIMESTAMP changes when a column changes;
\* affectedRows counts the rows matched (mysql2 sets CLIENT_FOUND_ROWS).
SqlUpdate(table, id, data, now, strict, collation) ==
    IF id \notin DOMAIN table
    THEN [error |-> "", table |-> table, affectedRows |-> 0]
    ELSE
    LET old == table[id]
        fits == /\ ("name" \in data.has => FitsText(data.name))
                /\ ("email" \in data.has => FitsText(data.email))
        set == [old EXCEPT
                  !.name = IF "name" \in data.has THEN StoreText(data.name) ELSE @,
                  !.email = IF "email" \in data.has THEN StoreText(data.email) ELSE @,
                  !.age = IF "age" \in data.has THEN <<data.age>> ELSE @]
        new == IF set = old THEN old ELSE [set EXCEPT !.updatedAt = now]
    IN  IF strict /\ ~fits
        THEN [error |-> "ER_DATA_TOO_LONG", table |-> table, affectedRows |-> 0]
        ELSE IF "email" \in data.has /\ DuplicateEmail(table, set.email, id, collation)
        THEN [error |-> "ER_DUP_ENTRY", table |-> table, affectedRows |-> 0]
        ELSE [error |-> "", table |-> [table EXCEPT ![id] = new], affectedRows |-> 1]

\* DELETE FROM users WHERE id = ?
SqlDelete(table, id) ==
    IF id \in DOMAIN table
    THEN [table |-> [i \in DOMAIN table \ {id} |-> table[i]], affectedRows |-> 1]
    ELSE [table |-> table, affectedRows |-> 0]

\* what the driver hands back for a row: the TIMESTAMP columns as Dates
\* (milliseconds since the epoch)
DriverRow(r) ==
    [r EXCEPT !.createdAt = [time |-> 1000 * r.createdAt],
              !.updatedAt = [time |-> 1000 * r.updatedAt]]

\* new Date(value) of a Date: a Date of the same instant
NewDate(d) == [time |-> d.time]

\* { ...user, createdAt: new Date(user.createdAt), updatedAt: new Date(user.updatedAt) }
ToUser(row) ==
    [row EXCEPT !.createdAt = NewDate(row.createdAt),
                !.updatedAt = NewDate(row.updatedAt)]

RECURSIVE MapToUser(_)
MapToUser(rows) ==
    IF rows = <<>> THEN <<>> ELSE <<ToUser(DriverRow(Head(rows)))>> \o MapToUser(Tail(rows))

(***************************************************************************)
(* State.                                                                  *)
(***************************************************************************)
VARIABLES
    users,      \* the table
    autoInc,    \* its AUTO_INCREMENT counter
    clock,      \* CURRENT_TIMESTAMP, in seconds
    strict,     \* the server's sql_mode is strict
    collation,  \* the collation of the email column
    pc,         \* per client: the statement its request awaits, or "idle"
    req,        \* per client: the request being handled
    issued,     \* per client: the statements its request has sent to the pool
    insertId,   \* per client: createAsync's local id
    started,    \* requests accepted so far
    last,       \* the exchange completed last: <<>> or <<exchange>>
    gone,    \* the ids whose DELETE request was answered 204
    created,    \* per id: <<>>, or <<payload>> of the 201 that answered its
                \* creation while no statement has written the row since
    thrown,     \* <<>>, or <<[caught, raised]>> when in the step just taken a
                \* repository method caught an error and raised one
    boot,       \* where the server's database setup stands
    held        \* connections the setup has acquired and not released

vars == <<users, autoInc, clock, strict, collation, pc, req, issued,
          insertId, started, last, gone, created, thrown, boot, held>>
dbVars == <<users, autoInc, clock>>
cfgVars == <<strict, collation>>
bootVars == <<boot, held>>
reqVars == <<pc, req, issued, insertId, started, last, gone, created, thrown>>

\* a position of the setup: the function, the place in it, the index of the
\* seed user being inserted, and whether NODE_ENV is "development"
At(fn, at, i, dev) == [fn |-> fn, at |-> at, i |-> i, dev |-> dev]

NoRequest == Request("", "", NoBody)

Init ==
    /\ users = <<>>
    /\ autoInc = 1
    /\ clock = 0
    /\ strict \in BOOLEAN
    /\ collation \in {"ci", "bin"}
    /\ pc = [c \in Clients |-> "idle"]
    /\ req = [c \in Clients |-> NoRequest]
    /\ issued = [c \in Clients |-> <<>>]
    /\ insertId = [c \in Clients |-> 0]
    /\ started = 0
    /\ last = <<>>
    /\ gone = {}
    /\ created = [i \in 1..MaxUsers |-> <<>>]
    /\ thrown = <<>>
    /\ boot = At("server", "listening", 0, FALSE)
    /\ held = 0

(***************************************************************************)
(* UserService: what each method returns for what the repository gave it.  *)
(***************************************************************************)
\* catch blocks that rethrow
ServiceRethrow(route) == <<>>

\* the catch block of each method
ServiceCatch(route) ==
    <<Failure(CASE route = "getUsers" -> "An error occurred while retrieving users."
                [] route = "getUser" -> "An error occurred while finding user."
                [] route = "createUser" -> "An error occurred while creating user."
                [] route = "updateUser" -> "An error occurred while updating user."
                [] route = "deleteUser" -> "An error occurred while deleting user.",
              Null, INTERNAL_SERVER_ERROR)>>

\* a repository catch block that raises an error of its own
RepositoryCatchWrapped(error) == "Database error"

\* catch (error) { logger.error(...); throw error } of the repository
\* methods: what is raised to the caller
RepositoryCatch(error) == error

\* a repository method caught `error` and raised what its catch block throws
Caught(error) == <<[caught |-> error, raised |-> RepositoryCatch(error)]>>

\* what pool.query rejects with when the server cannot be reached
ConnectionErrors == {"ECONNREFUSED", "PROTOCOL_CONNECTION_LOST"}

\* the errors a repository call raises: those of the connection, those of
\* the table, and the TypeError of createAsync on a re-read without rows
Errors == ConnectionErrors \cup {"ER_DUP_ENTRY", "ER_DATA_TOO_LONG", "TypeError"}

\* catch blocks that put the error's message into the envelope
ServiceCaughtWithDetail(route, ex) ==
    <<Failure(ServiceCatch(route)[1].message \o " " \o ex, Null, INTERNAL_SERVER_ERROR)>>

\* catch (ex): the error's message goes to the log, the envelope is the
\* method's own
ServiceCaught(route, ex) == ServiceCatch(route)

\* a findAll whose failure carries the list it got instead of null
FindAllResultWithList(found) ==
    IF Len(found) = 0
    THEN Failure("No Users found", ListPayload(found), NOT_FOUND)
    ELSE Success("Users found", ListPayload(found), OK)

\* findAll, after findAllAsync
FindAllResult(found) ==
    IF Len(found) = 0
    THEN Failure("No Users found", Null, NOT_FOUND)
    ELSE Success("Users found", ListPayload(found), OK)

\* a findById that reports the missing user as a server error
FindByIdResultAsError(user) ==
    IF user = <<>>
    THEN Failure("User not found", Null, INTERNAL_SERVER_ERROR)
    ELSE Success("User found", UserPayload(user[1]), OK)

\* findById, after findByIdAsync: user is <<>> (null) or <<u>>
FindByIdResult(user) ==
    IF user = <<>>
    THEN Failure("User not found", Null, NOT_FOUND)
    ELSE Success("User found", UserPayload(user[1]), OK)

\* a scan that compares the wrong field: user.name === userData.email
CreateEmailExistsByName(found, userData) ==
    \E i \in 1..Len(found) : found[i].name = userData.email

\* users.some((user) => user.email === userData.email)
CreateEmailExists(found, userData) ==
    \E i \in 1..Len(found) : found[i].email = userData.email

\* a scan that does not leave out the row being updated
UpdateEmailExistsAnyId(found, userData, id) ==
    \E i \in 1..Len(found) : found[i].email = userData.email

\* users.some((user) => user.email === userData.email && user.id !== id)
UpdateEmailExists(found, userData, id) ==
    \E i \in 1..Len(found) : found[i].email = userData.email /\ found[i].id # id

\* an update that never looks for the email among the other users
UpdateChecksEmailNever(userData, existingUser) == FALSE

\* userData.email && userData.email !== existingUser.email
UpdateChecksEmail(userData, existingUser) ==
    /\ "email" \in userData.has
    /\ userData.email # ""
    /\ userData.email # existingUser.email

\* if (!existingUser) in update
UpdateTargetMissing(existingUser) == existingUser = <<>>

\* a delete without its existence check
DeleteTargetMissingNever(existingUser) == FALSE

\* if (!existingUser) in delete
DeleteTargetMissing(existingUser) == existingUser = <<>>

EmailInUse == Failure("Email already in use", Null, CONFLICT)
UserNotFound == Failure("User not found", Null, NOT_FOUND)

\* an update that answers 404 when updateAsync returned null
UpdateResultNotFound(updatedUser) ==
    IF updatedUser = <<>>
    THEN Failure("User not found", Null, NOT_FOUND)
    ELSE Success("User updated successfully", UserPayload(updatedUser[1]), OK)

\* an update without the if (!updatedUser) check
UpdateResultUnchecked(updatedUser) ==
    Success("User updated successfully",
            IF updatedUser = <<>> THEN Null ELSE UserPayload(updatedUser[1]), OK)

\* update, after updateAsync: updatedUser is <<>> (null) or <<u>>
UpdateResult(updatedUser) ==
    IF updatedUser = <<>>
    THEN Failure("Failed to update user", Null, INTERNAL_SERVER_ERROR)
    ELSE Success("User updated successfully", UserPayload(updatedUser[1]), OK)

\* a delete that does not look at what deleteAsync returned
DeleteResultUnchecked(deleted) ==
    Success("User deleted successfully", Null, NO_CONTENT)

\* delete, after deleteAsync
DeleteResult(deleted) ==
    IF ~deleted
    THEN Failure("Failed to delete user", Null, INTERNAL_SERVER_ERROR)
    ELSE Success("User deleted successfully", Null, NO_CONTENT)

\* findByIdAsync on the rows of its SELECT: null, or the user
FindByIdAsync(rows) ==
    IF Len(rows) = 0 THEN <<>> ELSE <<ToUser(DriverRow(rows[1]))>>

\* a findAllAsync that hands back the first row only
FindAllAsyncFirstOnly(rows) ==
    IF rows = <<>> THEN <<>> ELSE MapToUser(<<rows[1]>>)

\* findAllAsync on the rows of its SELECT
FindAllAsync(rows) == MapToUser(rows)

\* a createAsync that answers with its input laid over the re-read row:
\* { ...createdUser, ...user, createdAt: ..., updatedAt: ... }
CreatedUserFromInput(createdUser, user) ==
    [ToUser(DriverRow(createdUser)) EXCEPT
        !.name = IF "name" \in user.has THEN user.name ELSE @,
        !.email = IF "email" \in user.has THEN user.email ELSE @,
        !.age = IF "age" \in user.has THEN <<user.age>> ELSE @]

\* createAsync's return value: the re-read row (users[0]) with its
\* timestamps as Dates; `user` is the input
CreatedUser(createdUser, user) == ToUser(DriverRow(createdUser))

\* deleteAsync: affectedRows > 0
DeleteAsync(result) == result.affectedRows > 0

\* the first statement of updateAsync: with no field to set it only reads
UpdateAsyncEntry(userData) ==
    IF userData.has = {} THEN "update.updateAsync.select" ELSE "update.updateAsync.update"

\* the controller method of a route calls its service method, whose first
\* repository call sends this statement
FirstStatement(route) ==
    CASE route = "getUsers" -> "findAll.findAllAsync"
      [] route = "getUser" -> "findById.findByIdAsync"
      [] route = "createUser" -> "create.findAllAsync"
      [] route = "updateUser" -> "update.findByIdAsync"
      [] route = "deleteUser" -> "delete.findByIdAsync"

\* the SQL statement a client at pc awaits
StatementAt(at) ==
    CASE at \in {"findAll.findAllAsync", "create.findAllAsync", "update.findAllAsync"}
            -> "SELECT_ALL"
      [] at \in {"findById.findByIdAsync", "update.findByIdAsync", "delete.findByIdAsync",
                 "create.createAsync.select", "update.updateAsync.select"}
            -> "SELECT_BY_ID"
      [] at = "create.createAsync.insert" -> "INSERT"
      [] at = "update.updateAsync.update" -> "UPDATE"
      [] at = "delete.deleteAsync" -> "DELETE"

(***************************************************************************)
(* Steps.                                                                  *)
(***************************************************************************)
\* a completed exchange: service is <<>> when the service was not called,
\* else <<the envelope it returned>>; threw tells whether a repository call
\* raised; issued lists the statements sent to the pool
Exchange(r, service, response, log, threw) ==
    [req |-> r, issued |-> log, service |-> service, response |-> response,
     threw |-> threw]

Reset(c) ==
    /\ pc' = [pc EXCEPT ![c] = "idle"]
    /\ req' = [req EXCEPT ![c] = NoRequest]
    /\ issued' = [issued EXCEPT ![c] = <<>>]
    /\ insertId' = [insertId EXCEPT ![c] = 0]

Id(c) == ParseInt(req[c].id)

\* what the answer adds to the record of 204s and 201s
DeletedAfter(c, envelope) ==
    IF req[c].route = "deleteUser" /\ envelope.statusCode = NO_CONTENT
    THEN gone \cup {Id(c)} ELSE gone

\* the 201s on record after a statement wrote the rows `written` (an UPDATE
\* that matched, a DELETE that removed) and client c got `result`
CreatedAfter(c, written, result) ==
    [i \in 1..MaxUsers |->
        IF /\ result # <<>>
           /\ req[c].route = "createUser"
           /\ result[1].statusCode = CREATED
           /\ result[1].responseObject.user.id = i
        THEN <<result[1].responseObject>>
        ELSE IF i \in written THEN <<>> ELSE created[i]]

\* the service method returns (result = <<envelope>>) and the controller
\* answers; a method that raised instead (result = <<>>) leaves the request
\* without an answer
Return(c, result, threw, written) ==
    LET log == Append(issued[c], StatementAt(pc[c])) IN
    /\ created' = CreatedAfter(c, written, result)
    /\ IF result = <<>>
       THEN /\ pc' = [pc EXCEPT ![c] = "unhandled"]
            /\ issued' = [issued EXCEPT ![c] = log]
            /\ UNCHANGED <<req, insertId, last, gone>>
       ELSE /\ last' = <<Exchange(req[c], result, HandleServiceResponse(result[1]),
                                  log, threw)>>
            /\ gone' = DeletedAfter(c, result[1])
            /\ Reset(c)

\* the request goes on to its next statement
Await(c, next, written) ==
    /\ pc' = [pc EXCEPT ![c] = next]
    /\ issued' = [issued EXCEPT ![c] = Append(@, StatementAt(pc[c]))]
    /\ created' = CreatedAfter(c, written, <<>>)
    /\ UNCHANGED <<req, last, gone>>


\* the requests in flight that will still take an AUTO_INCREMENT value
PendingInserts ==
    Cardinality({c \in Clients : pc[c] \in {"create.findAllAsync", "create.createAsync.insert"}})

\* The router hands the request to validateRequest, then to the controller
\* method, which runs up to the first statement of the service method.  A
\* request takes the first idle client.
Receive(c, r) ==
    /\ pc[c] = "idle"
    /\ \A d \in Clients : d < c => pc[d] # "idle"
    /\ started < MaxRequests
    /\ r.route = "createUser" => autoInc + PendingInserts <= MaxUsers
    /\ started' = started + 1
    /\ LET invalid == ValidateRequest(r) IN
       IF invalid # <<>>
       THEN /\ last' = <<Exchange(r, <<>>, HandleServiceResponse(invalid[1]), <<>>, FALSE)>>
            /\ UNCHANGED <<pc, req, issued, insertId>>
       ELSE /\ pc' = [pc EXCEPT ![c] = FirstStatement(r.route)]
            /\ req' = [req EXCEPT ![c] = r]
            /\ UNCHANGED <<issued, insertId, last>>
    /\ thrown' = <<>>
    /\ UNCHANGED <<dbVars, cfgVars, bootVars, gone, created>>

\* UserService.findAll
FindAll(c) ==
    /\ pc[c] = "findAll.findAllAsync"
    /\ thrown' = <<>>
    /\ Return(c, <<FindAllResult(FindAllAsync(SqlSelectAll(users)))>>, FALSE, {})
    /\ UNCHANGED <<dbVars, cfgVars, bootVars, started>>

\* UserService.findById
FindById(c) ==
    /\ pc[c] = "findById.findByIdAsync"
    /\ thrown' = <<>>
    /\ Return(c, <<FindByIdResult(FindByIdAsync(SqlSelectById(users, Id(c))))>>, FALSE, {})
    /\ UNCHANGED <<dbVars, cfgVars, bootVars, started>>

\* UserService.create: the email check
CreateCheck(c) ==
    /\ pc[c] = "create.findAllAsync"
    /\ thrown' = <<>>
    /\ IF CreateEmailExists(FindAllAsync(SqlSelectAll(users)), req[c].body)
       THEN Return(c, <<EmailInUse>>, FALSE, {})
       ELSE Await(c, "create.createAsync.insert", {}) /\ UNCHANGED insertId
    /\ UNCHANGED <<dbVars, cfgVars, bootVars, started>>

\* createAsync: the INSERT
CreateInsert(c) ==
    /\ pc[c] = "create.createAsync.insert"
    /\ \E now \in clock..Min(clock + 1, MaxClock) :
         LET user == req[c].body
             result == SqlInsert(users, autoInc, user.name, user.email,
                                 IF "age" \in user.has THEN <<user.age>> ELSE <<>>,
                                 now, strict, collation)
         IN /\ clock' = now
            /\ users' = result.table
            /\ autoInc' = result.autoInc
            /\ IF result.error # ""
               THEN /\ thrown' = Caught(result.error)
                    /\ Return(c, ServiceCaught(req[c].route, RepositoryCatch(result.error)),
                              TRUE, {})
               ELSE /\ thrown' = <<>>
                    /\ Await(c, "create.createAsync.select", {})
                    /\ insertId' = [insertId EXCEPT ![c] = result.insertId]
    /\ UNCHANGED <<cfgVars, bootVars, started>>

\* createAsync: the re-read; users[0] is undefined when the row is gone, and
\* createdUser.createdAt then raises a TypeError
CreateSelect(c) ==
    /\ pc[c] = "create.createAsync.select"
    /\ LET rows == SqlSelectById(users, insertId[c]) IN
       IF Len(rows) = 0
       THEN /\ thrown' = Caught("TypeError")
            /\ Return(c, ServiceCaught(req[c].route, RepositoryCatch("TypeError")), TRUE, {})
       ELSE /\ thrown' = <<>>
            /\ Return(c, <<Success("User created successfully",
                                   UserPayload(CreatedUser(rows[1], req[c].body)), CREATED)>>,
                      FALSE, {})
    /\ UNCHANGED <<dbVars, cfgVars, bootVars, started>>

\* UserService.update: the existence check
UpdateFind(c) ==
    /\ pc[c] = "update.findByIdAsync"
    /\ thrown' = <<>>
    /\ LET existingUser == FindByIdAsync(SqlSelectById(users, Id(c))) IN
       IF UpdateTargetMissing(existingUser)
       THEN Return(c, <<UserNotFound>>, FALSE, {})
       ELSE /\ Await(c, IF UpdateChecksEmail(req[c].body, existingUser[1])
                        THEN "update.findAllAsync"
                        ELSE UpdateAsyncEntry(req[c].body), {})
            /\ UNCHANGED insertId
    /\ UNCHANGED <<dbVars, cfgVars, bootVars, started>>

\* UserService.update: the email check
UpdateCheck(c) ==
    /\ pc[c] = "update.findAllAsync"
    /\ thrown' = <<>>
    /\ IF UpdateEmailExists(FindAllAsync(SqlSelectAll(users)), req[c].body, Id(c))
       THEN Return(c, <<EmailInUse>>, FALSE, {})
       ELSE Await(c, UpdateAsyncEntry(req[c].body), {}) /\ UNCHANGED insertId
    /\ UNCHANGED <<dbVars, cfgVars, bootVars, started>>

\* updateAsync: the UPDATE; affectedRows === 0 returns null
UpdateExec(c) ==
    /\ pc[c] = "update.updateAsync.update"
    /\ \E now \in clock..Min(clock + 1, MaxClock) :
         LET result == SqlUpdate(users, Id(c), req[c].body, now, strict, collation) IN
         /\ clock' = now
         /\ users' = result.table
         /\ IF result.error # ""
            THEN /\ thrown' = Caught(result.error)
                 /\ Return(c, ServiceCaught(req[c].route, RepositoryCatch(result.error)),
                           TRUE, {})
            ELSE IF result.affectedRows = 0
            THEN thrown' = <<>> /\ Return(c, <<UpdateResult(<<>>)>>, FALSE, {})
            ELSE /\ thrown' = <<>>
                 /\ Await(c, "update.updateAsync.select", {Id(c)})
                 /\ UNCHANGED insertId
    /\ UNCHANGED <<autoInc, cfgVars, bootVars, started>>

\* updateAsync: return this.findByIdAsync(id)
UpdateSelect(c) ==
    /\ pc[c] = "update.updateAsync.select"
    /\ thrown' = <<>>
    /\ Return(c, <<UpdateResult(FindByIdAsync(SqlSelectById(users, Id(c))))>>, FALSE, {})
    /\ UNCHANGED <<dbVars, cfgVars, bootVars, started>>

\* UserService.delete: the existence check
DeleteFind(c) ==
    /\ pc[c] = "delete.findByIdAsync"
    /\ thrown' = <<>>
    /\ IF DeleteTargetMissing(FindByIdAsync(SqlSelectById(users, Id(c))))
       THEN Return(c, <<UserNotFound>>, FALSE, {})
       ELSE Await(c, "delete.deleteAsync", {}) /\ UNCHANGED insertId
    /\ UNCHANGED <<dbVars, cfgVars, bootVars, started>>

\* deleteAsync: the DELETE
DeleteExec(c) ==
    /\ pc[c] = "delete.deleteAsync"
    /\ thrown' = <<>>
    /\ LET result == SqlDelete(users, Id(c)) IN
       /\ users' = result.table
       /\ Return(c, <<DeleteResult(DeleteAsync(result))>>, FALSE, {Id(c)})
    /\ UNCHANGED <<autoInc, clock, cfgVars, bootVars, started>>

\* pool.query rejects (the connection is lost, the server is down): the
\* statement has no effect, the repository method logs and rethrows, and the
\* service method's catch block answers
QueryFails(c) ==
    /\ pc[c] \notin {"idle", "unhandled"}
    /\ \E ex \in ConnectionErrors :
         /\ thrown' = Caught(ex)
         /\ Return(c, ServiceCaught(req[c].route, RepositoryCatch(ex)), TRUE, {})
    /\ UNCHANGED <<dbVars, cfgVars, bootVars, started>>

Next ==
    \E c \in Clients :
        \/ \E r \in Requests : Receive(c, r)
        \/ FindAll(c)
        \/ FindById(c)
        \/ CreateCheck(c)
        \/ CreateInsert(c)
        \/ CreateSelect(c)
        \/ UpdateFind(c)
        \/ UpdateCheck(c)
        \/ UpdateExec(c)
        \/ UpdateSelect(c)
        \/ DeleteFind(c)
        \/ DeleteExec(c)

\* the service over a database that answers every statement
Spec == Init /\ [][Next]_vars

\* the service over a database whose statements may fail
FaultSpec == Init /\ [][Next \/ \E c \in Clients : QueryFails(c)]_vars

(***************************************************************************)
(* The database setup the server runs when it starts: testConnection,      *)
(* initializeDatabase and, in development, seedDatabase, awaited in turn   *)
(* inside one try block.  `held` counts the connections a function took    *)
(* from the pool with getConnection and has not given back with release.   *)
(* A step is one awaited call together with the code that follows it up    *)
(* to the next await, the return or the throw.                             *)
(***************************************************************************)
\* the sample users of seedDatabase
SeedUsers ==
    << [name |-> "Alice Johnson", email |-> "alice@example.com", age |-> 32],
       [name |-> "Bob Smith", email |-> "bob@example.com", age |-> 45],
       [name |-> "Carol Williams", email |-> "carol@example.com", age |-> 28],
       [name |-> "David Brown", email |-> "david@example.com", age |-> 39],
       [name |-> "Eva Davis", email |-> "eva@example.com", age |-> 24] >>

\* a table an earlier run of the server left behind
PriorTable ==
    1 :> [id |-> 1, name |-> "Al", email |-> "a@x.com", age |-> <<30>>,
          createdAt |-> 0, updatedAt |-> 0]

\* SELECT COUNT(*) as count FROM users
SqlCount(table) == Cardinality(DOMAIN table)

\* the setup is at this place of this function
BootAt(fn, at) == boot.fn = fn /\ boot.at = at

\* the setup moves to another place; the environment stays
Goto(fn, at, i) == boot' = At(fn, at, i, boot.dev)

\* the process starts: the table is empty or holds rows of an earlier run
StartupInit ==
    /\ \/ users = <<>> /\ autoInc = 1
       \/ users = PriorTable /\ autoInc = 2
    /\ clock = 0
    /\ strict \in BOOLEAN
    /\ collation \in {"ci", "bin"}
    /\ pc = [c \in Clients |-> "idle"]
    /\ req = [c \in Clients |-> NoRequest]
    /\ issued = [c \in Clients |-> <<>>]
    /\ insertId = [c \in Clients |-> 0]
    /\ started = 0
    /\ last = <<>>
    /\ gone = {}
    /\ created = [i \in 1..MaxUsers |-> <<>>]
    /\ thrown = <<>>
    /\ \E dev \in BOOLEAN : boot = At("testConnection", "getConnection", 0, dev)
    /\ held = 0

\* testConnection: getConnection resolves, the connection is released and
\* true is returned; or getConnection rejects and the catch returns false
TestConnection ==
    /\ BootAt("testConnection", "getConnection")
    /\ \E connected \in BOOLEAN :
         IF connected
         THEN held' = (held + 1) - 1
         ELSE held' = held
    /\ Goto("testConnection", "returned", 0)
    /\ UNCHANGED <<dbVars, cfgVars, reqVars>>

\* initializeDatabase: const connection = await pool.getConnection()
InitializeGetConnection ==
    /\ BootAt("initializeDatabase", "getConnection")
    /\ \E connected \in BOOLEAN :
         IF connected
         THEN held' = held + 1 /\ Goto("initializeDatabase", "query", 0)
         ELSE held' = held /\ Goto("initializeDatabase", "raised", 0)
    /\ UNCHANGED <<dbVars, cfgVars, reqVars>>

\* initializeDatabase: CREATE TABLE IF NOT EXISTS, then release; a query
\* that rejects goes to the catch block, which logs and rethrows
InitializeQuery ==
    /\ BootAt("initializeDatabase", "query")
    /\ \E ok \in BOOLEAN :
         IF ok
         THEN held' = held - 1 /\ Goto("initializeDatabase", "returned", 0)
         ELSE held' = held /\ Goto("initializeDatabase", "raised", 0)
    /\ UNCHANGED <<dbVars, cfgVars, reqVars>>

\* seedDatabase: const connection = await pool.getConnection()
SeedGetConnection ==
    /\ BootAt("seedDatabase", "getConnection")
    /\ \E connected \in BOOLEAN :
         IF connected
         THEN held' = held + 1 /\ Goto("seedDatabase", "count", 0)
         ELSE held' = held /\ Goto("seedDatabase", "raised", 0)
    /\ UNCHANGED <<dbVars, cfgVars, reqVars>>

\* seedDatabase: the COUNT query; a table with rows is left alone
SeedCount ==
    /\ BootAt("seedDatabase", "count")
    /\ \E ok \in BOOLEAN :
         IF ~ok
         THEN held' = held /\ Goto("seedDatabase", "raised", 0)
         ELSE IF SqlCount(users) > 0
         THEN held' = held - 1 /\ Goto("seedDatabase", "returned", 0)
         ELSE held' = held /\ Goto("seedDatabase", "insert", 1)
    /\ UNCHANGED <<dbVars, cfgVars, reqVars>>

\* seedDatabase: one INSERT of the loop; after the last, release
SeedInsert ==
    /\ BootAt("seedDatabase", "insert")
    /\ \E ok \in BOOLEAN, now \in clock..Min(clock + 1, MaxClock) :
         LET user == SeedUsers[boot.i]
             result == SqlInsert(users, autoInc, user.name, user.email, <<user.age>>,
                                 now, strict, collation)
         IN IF ~ok
            THEN /\ held' = held
                 /\ Goto("seedDatabase", "raised", boot.i)
                 /\ UNCHANGED dbVars
            ELSE /\ clock' = now
                 /\ users' = result.table
                 /\ autoInc' = result.autoInc
                 /\ IF result.error # ""
                    THEN held' = held /\ Goto("seedDatabase", "raised", boot.i)
                    ELSE IF boot.i < Len(SeedUsers)
                    THEN held' = held /\ Goto("seedDatabase", "insert", boot.i + 1)
                    ELSE held' = held - 1 /\ Goto("seedDatabase", "returned", 0)
    /\ UNCHANGED <<cfgVars, reqVars>>

\* the async block of server.ts: the next function is awaited when one
\* returns, and the catch block logs when one raises
StartServer ==
    /\ boot.at \in {"returned", "raised"}
    /\ IF boot.at = "raised"
       THEN Goto("server", "setup failed", 0)
       ELSE IF boot.fn = "testConnection"
       THEN Goto("initializeDatabase", "getConnection", 0)
       ELSE IF boot.fn = "initializeDatabase" /\ boot.dev
       THEN Goto("seedDatabase", "getConnection", 0)
       ELSE Goto("server", "listening", 0)
    /\ UNCHANGED <<dbVars, cfgVars, reqVars, held>>

StartupNext ==
    \/ TestConnection
    \/ InitializeGetConnection
    \/ InitializeQuery
    \/ SeedGetConnection
    \/ SeedCount
    \/ SeedInsert
    \/ StartServer

\* the database setup of a starting server
StartupSpec == StartupInit /\ [][StartupNext]_vars

(***************************************************************************)
(* Properties.  A step of client c at statement `at` is a step that moves  *)
(* c off `at`: the database executes the statement and c's code runs on.   *)
(***************************************************************************)
StepAt(c, at) == pc[c] = at /\ pc'[c] # at

\* the exchange `last` holds came from `route`
LastIs(route) == last # <<>> /\ last[1].req.route = route

\* the service answered the last exchange with this status
LastStatus(route, status) ==
    /\ LastIs(route)
    /\ last[1].service # <<>>
    /\ last[1].service[1].statusCode = status

EmailTaken(email) == \E r \in Rows(users) : r.email = email

\* C1: in every reachable state of the table, whatever sequence and
\* interleaving of create, update and delete requests led to it, no two
\* rows have the same email.
C1_EmailUnique ==
    \A i, j \in DOMAIN users : users[i].email = users[j].email => i = j

\* C1's case: a create whose values fit their columns passed the service's
\* email check, and its INSERT was refused by the table because another
\* request had stored the same email in between.
C1_Witness ==
    /\ LastStatus("createUser", INTERNAL_SERVER_ERROR)
    /\ last[1].threw
    /\ last[1].issued = <<"SELECT_ALL", "INSERT">>
    /\ FitsText(last[1].req.body.name)
    /\ EmailTaken(last[1].req.body.email)

\* C2: a create whose email equals, character for character, the email of a
\* row in the table when create reads the table is answered 409 "Email
\* already in use" with a null payload; it sends no INSERT and the rows
\* findAll returns are the same after as before.
C2_DuplicateEmailRejected ==
    [][\A c \in Clients :
        (StepAt(c, "create.findAllAsync") /\ EmailTaken(req[c].body.email))
        => /\ last' = <<[req |-> req[c],
                         issued |-> <<"SELECT_ALL">>,
                         service |-> <<[success |-> FALSE,
                                        message |-> "Email already in use",
                                        responseObject |-> Null,
                                        statusCode |-> 409]>>,
                         response |-> [status |-> 409,
                                       body |-> <<[success |-> FALSE,
                                                   message |-> "Email already in use",
                                                   responseObject |-> Null,
                                                   statusCode |-> 409]>>],
                         threw |-> FALSE]>>
           /\ pc'[c] = "idle"
           /\ SqlSelectAll(users') = SqlSelectAll(users)
           /\ autoInc' = autoInc]_vars

\* C2's case: a create was answered 409 while a row with its email is stored.
C2_Witness ==
    /\ LastStatus("createUser", 409)
    /\ EmailTaken(last[1].req.body.email)
    /\ last[1].issued = <<"SELECT_ALL">>

\* C3: a create with valid input whose email no row holds when the INSERT
\* runs is answered 201 "User created successfully", and the payload is the
\* newly inserted row: name, email and age as in the input (age null when
\* the input has none), under an id no row held before.
C3_FreshCreateSucceeds ==
    [][\A c \in Clients :
        LET input == req[c].body
            age == IF "age" \in input.has THEN <<input.age>> ELSE <<>>
        IN
        /\ (StepAt(c, "create.createAsync.insert") /\ ~EmailTaken(input.email))
           => /\ pc'[c] = "create.createAsync.select"
              /\ insertId'[c] \notin DOMAIN users
              /\ insertId'[c] \in DOMAIN users'
              /\ users'[insertId'[c]].name = input.name
              /\ users'[insertId'[c]].email = input.email
              /\ users'[insertId'[c]].age = age
        /\ StepAt(c, "create.createAsync.select")
           => /\ last'[1].req = req[c]
              /\ last'[1].service[1].success
              /\ last'[1].service[1].statusCode = 201
              /\ last'[1].service[1].message = "User created successfully"
              /\ last'[1].service[1].responseObject.kind = "user"
              /\ last'[1].service[1].responseObject.user.id = insertId[c]
              /\ last'[1].service[1].responseObject.user.name = input.name
              /\ last'[1].service[1].responseObject.user.email = input.email
              /\ last'[1].service[1].responseObject.user.age = age]_vars

NotFoundEnvelope ==
    [success |-> FALSE, message |-> "User not found",
     responseObject |-> Null, statusCode |-> 404]

\* C4: a findById, update or delete call with an id no row of the table
\* has is answered by the failure envelope 404 "User not found" with a null
\* payload.
C4_MissingIdIs404 ==
    [][\A c \in Clients :
        (/\ \/ StepAt(c, "findById.findByIdAsync")
            \/ StepAt(c, "update.findByIdAsync")
            \/ StepAt(c, "delete.findByIdAsync")
         /\ Id(c) \notin DOMAIN users)
        => /\ last'[1].req = req[c]
           /\ last'[1].service = <<NotFoundEnvelope>>
           /\ pc'[c] = "idle"
           /\ users' = users]_vars

\* C4's case: an update of an id the table does not hold was answered 404.
C4_Witness ==
    /\ LastStatus("updateUser", 404)
    /\ ParseInt(last[1].req.id) \notin DOMAIN users
    /\ last[1].service = <<NotFoundEnvelope>>

\* C5: a delete of an existing id is answered 204 and removes the row; a
\* delete of the same id called after that answer is answered 404, never 204
\* again, and removes nothing.
C5_DeleteTwice ==
    [][\A c \in Clients :
        /\ (StepAt(c, "delete.deleteAsync") /\ Id(c) \in DOMAIN users)
           => /\ last'[1].req = req[c]
              /\ last'[1].service[1].statusCode = 204
              /\ last'[1].service[1].success
              /\ Id(c) \notin DOMAIN users'
        /\ (StepAt(c, "delete.findByIdAsync") /\ Id(c) \in gone)
           => /\ last'[1].req = req[c]
              /\ last'[1].service = <<NotFoundEnvelope>>
              /\ pc'[c] = "idle"
              /\ users' = users]_vars

\* C5's case: the id was deleted with a 204 and a later delete of it was
\* answered 404.
C5_Witness ==
    /\ LastStatus("deleteUser", 404)
    /\ ParseInt(last[1].req.id) \in gone

\* C6: after a create answered 201, and with no statement writing the new
\* row in between, findById on the id of the create's payload is answered
\* 200 with a record equal, field for field, to that payload.
C6_CreateThenGet ==
    [][\A c \in Clients :
        (/\ StepAt(c, "findById.findByIdAsync")
         /\ Id(c) \in DOMAIN created
         /\ created[Id(c)] # <<>>)
        => /\ last'[1].req = req[c]
           /\ last'[1].service[1].success
           /\ last'[1].service[1].statusCode = 200
           /\ last'[1].service[1].responseObject = created[Id(c)][1]]_vars

\* C6's case: a findById was answered with the payload of the 201 that
\* created the row.
C6_Witness ==
    /\ LastStatus("getUser", 200)
    /\ ParseInt(last[1].req.id) \in DOMAIN created
    /\ created[ParseInt(last[1].req.id)] = <<last[1].service[1].responseObject>>

\* the body of a 400 sent by the validation middleware
IsInvalidInput(exchange) ==
    /\ exchange.response.status = 400
    /\ Len(exchange.response.body) = 1
    /\ ~exchange.response.body[1].success
    /\ exchange.response.body[1].statusCode = 400
    /\ exchange.response.body[1].responseObject = Null

\* C7: a request on a validated route whose params or body violate the
\* route's schema is answered by the validation middleware with a failure
\* envelope of status 400, a message starting "Invalid input: " and a null
\* payload; the controller, the service and the repository are not invoked
\* for it and no query is issued.
C7_InvalidRequestStopsAtValidation ==
    /\ \A c \in Clients : pc[c] # "idle" => SchemaIssues(req[c]) = <<>>
    /\ (last # <<>> /\ SchemaIssues(last[1].req) # <<>>)
       => /\ IsInvalidInput(last[1])
          /\ StartsWith(last[1].response.body[1].message, "Invalid input: ")
          /\ last[1].service = <<>>
          /\ last[1].issued = <<>>

\* C7's case: GET /users/abc was answered 400 without a query.
C7_Witness ==
    /\ LastIs("getUser")
    /\ last[1].req.id = "abc"
    /\ last[1].response.status = 400
    /\ last[1].issued = <<>>

\* C8: an update whose body has none of name, email and age (an empty
\* object) is answered 400 with a message containing "Invalid input" and a
\* null payload, whether or not the id exists; the table is neither read
\* nor written.
C8_EmptyUpdateIs400 ==
    /\ \A c \in Clients :
         (pc[c] # "idle" /\ req[c].route = "updateUser") => req[c].body.has # {}
    /\ (LastIs("updateUser") /\ last[1].req.body.has = {} /\ last[1].req.body.extra = {})
       => /\ IsInvalidInput(last[1])
          /\ Contains(last[1].response.body[1].message, "Invalid input")
          /\ last[1].service = <<>>
          /\ last[1].issued = <<>>

\* C8's case: PUT /users/<an id in the table> with {} was answered 400.
C8_Witness ==
    /\ LastIs("updateUser")
    /\ last[1].req.body.has = {} /\ last[1].req.body.extra = {}
    /\ last[1].req.id \in RowIds /\ ParseInt(last[1].req.id) \in DOMAIN users
    /\ last[1].response.status = 400

CatchMessage(route) ==
    CASE route = "getUsers" -> "An error occurred while retrieving users."
      [] route = "getUser" -> "An error occurred while finding user."
      [] route = "createUser" -> "An error occurred while creating user."
      [] route = "updateUser" -> "An error occurred while updating user."
      [] route = "deleteUser" -> "An error occurred while deleting user."

\* C9: every service operation returns an envelope and never raises,
\* whatever its repository calls do at any step; when a repository call
\* throws, the envelope is success = false, status 500, null payload, with
\* the operation's own message.
C9_ServiceNeverRaises ==
    /\ \A c \in Clients : pc[c] # "unhandled"
    /\ (last # <<>> /\ last[1].threw)
       => last[1].service = <<[success |-> FALSE,
                               message |-> CatchMessage(last[1].req.route),
                               responseObject |-> Null,
                               statusCode |-> 500]>>

\* C9's case: the DELETE of a delete request failed after its existence
\* check had passed, and the service answered with its 500.
C9_Witness ==
    /\ LastStatus("deleteUser", 500)
    /\ last[1].threw
    /\ last[1].issued = <<"SELECT_BY_ID", "DELETE">>

\* C10: in every envelope a service operation returns, a failure has a null
\* payload; a success of findAll, findById, create or update has a payload;
\* a success of delete has a null payload.
C10_PayloadFollowsSuccess ==
    (last # <<>> /\ last[1].service # <<>>)
    => LET envelope == last[1].service[1] IN
       /\ ~envelope.success => envelope.responseObject = Null
       /\ (envelope.success /\ last[1].req.route # "deleteUser")
          => envelope.responseObject # Null
       /\ (envelope.success /\ last[1].req.route = "deleteUser")
          => envelope.responseObject = Null

\* C10's case: a delete succeeded, the one success without a payload.
C10_Witness ==
    /\ LastStatus("deleteUser", 204)
    /\ last[1].service[1].success
    /\ last[1].service[1].responseObject = Null

\* a row other than `id` holds exactly this email
EmailOfAnother(email, id) == \E r \in Rows(users) : r.email = email /\ r.id # id

\* C11: an update of an existing row whose supplied email differs from the
\* row's email and equals the email of a row with another id is answered 409
\* "Email already in use" with a null payload; the repository update is not
\* called and the table is unchanged.
C11_UpdateDuplicateEmailRejected ==
    [][\A c \in Clients :
        LET data == req[c].body IN
        /\ (/\ StepAt(c, "update.findByIdAsync")
            /\ Id(c) \in DOMAIN users
            /\ "email" \in data.has
            /\ data.email # users[Id(c)].email
            /\ EmailOfAnother(data.email, Id(c)))
           => /\ pc'[c] = "update.findAllAsync"
              /\ users' = users
        /\ (StepAt(c, "update.findAllAsync") /\ EmailOfAnother(data.email, Id(c)))
           => /\ last'[1].req = req[c]
              /\ last'[1].service = <<[success |-> FALSE,
                                       message |-> "Email already in use",
                                       responseObject |-> Null,
                                       statusCode |-> 409]>>
              /\ last'[1].issued = <<"SELECT_BY_ID", "SELECT_ALL">>
              /\ pc'[c] = "idle"
              /\ users' = users]_vars

\* C11's case: an update was answered 409 after its two reads, while a row
\* with another id holds the email it supplied.
C11_Witness ==
    /\ LastStatus("updateUser", 409)
    /\ last[1].issued = <<"SELECT_BY_ID", "SELECT_ALL">>
    /\ EmailOfAnother(last[1].req.body.email, ParseInt(last[1].req.id))
    /\ ParseInt(last[1].req.id) \in DOMAIN users

\* the row `id` holds exactly the email the update supplies
SuppliesOwnEmail(data, id) ==
    /\ id \in DOMAIN users
    /\ "email" \in data.has
    /\ users[id].email = data.email

\* C12: an update whose supplied email is the row's own current email is not
\* rejected as a duplicate: no step of it answers 409, and when the UPDATE
\* has matched the row and the re-read finds it, the answer is 200 "User
\* updated successfully".
C12_OwnEmailAccepted ==
    [][\A c \in Clients :
        LET data == req[c].body IN
        /\ (/\ req[c].route = "updateUser"
            /\ pc[c] # pc'[c]
            /\ SuppliesOwnEmail(data, Id(c)))
           => ~(/\ pc'[c] = "idle"
                /\ last'[1].service[1].statusCode = 409)
        /\ (StepAt(c, "update.findByIdAsync") /\ SuppliesOwnEmail(data, Id(c)))
           => pc'[c] = "update.updateAsync.update"
        /\ (StepAt(c, "update.updateAsync.update") /\ SuppliesOwnEmail(data, Id(c)))
           => pc'[c] = "update.updateAsync.select"
        /\ (StepAt(c, "update.updateAsync.select") /\ SuppliesOwnEmail(data, Id(c)))
           => /\ last'[1].req = req[c]
              /\ last'[1].service[1].success
              /\ last'[1].service[1].statusCode = 200
              /\ last'[1].service[1].message = "User updated successfully"]_vars

\* C12's case: an update that supplied only the email its row already held
\* was answered 200 without the scan of the other users.
C12_Witness ==
    /\ LastStatus("updateUser", 200)
    /\ last[1].req.body.has = {"email"}
    /\ last[1].issued = <<"SELECT_BY_ID", "UPDATE", "SELECT_BY_ID">>
    /\ last[1].service[1].responseObject.user.email = last[1].req.body.email

\* C13: the UPDATE of an update request changes, in the stored row id, only
\* fields among name, email and age that the body supplies, and updatedAt;
\* the row's id and createdAt, its unsupplied fields, and every other row
\* stay as they were, also when the body carries extra keys such as id or
\* createdAt; no other step of the update writes the table.
C13_UpdateTouchesSuppliedFields ==
    [][\A c \in Clients :
        LET data == req[c].body
            id == Id(c)
        IN
        /\ (StepAt(c, "update.updateAsync.update") /\ id \in DOMAIN users)
           => /\ DOMAIN users' = DOMAIN users
              /\ \A i \in DOMAIN users \ {id} : users'[i] = users[i]
              /\ users'[id].id = users[id].id
              /\ users'[id].createdAt = users[id].createdAt
              /\ "name" \notin data.has => users'[id].name = users[id].name
              /\ "email" \notin data.has => users'[id].email = users[id].email
              /\ "age" \notin data.has => users'[id].age = users[id].age
        /\ (\/ StepAt(c, "update.findByIdAsync")
            \/ StepAt(c, "update.findAllAsync")
            \/ StepAt(c, "update.updateAsync.select"))
           => users' = users]_vars

\* C13's case: an update whose body supplied name and email, and the extra
\* keys id and createdAt, was answered 200; the row kept its id and its age.
C13_Witness ==
    /\ LastStatus("updateUser", 200)
    /\ last[1].req.body.has = {"name", "email"}
    /\ last[1].req.body.extra = {"id", "createdAt"}
    /\ LET id == ParseInt(last[1].req.id) IN
       /\ id \in DOMAIN users
       /\ users[id].id = id
       /\ users[id].name = last[1].req.body.name
       /\ users[id].age = <<30>>

\* C14: findAll answers 404 "No Users found" with a null payload exactly
\* when the table is empty, and otherwise 200 "Users found" with a payload
\* holding every row of the table, once each, and nothing else.
C14_FindAllListsTheTable ==
    [][\A c \in Clients :
        StepAt(c, "findAll.findAllAsync")
        => LET envelope == last'[1].service[1] IN
           /\ last'[1].req = req[c]
           /\ pc'[c] = "idle"
           /\ users' = users
           /\ IF DOMAIN users = {}
              THEN envelope = [success |-> FALSE,
                               message |-> "No Users found",
                               responseObject |-> Null,
                               statusCode |-> 404]
              ELSE /\ envelope.success
                   /\ envelope.statusCode = 200
                   /\ envelope.message = "Users found"
                   /\ envelope.responseObject.kind = "list"
                   /\ LET list == envelope.responseObject.users IN
                      /\ Len(list) = Cardinality(DOMAIN users)
                      /\ {list[i].id : i \in 1..Len(list)} = DOMAIN users
                      /\ \A i \in 1..Len(list) :
                            list[i] = ToUser(DriverRow(users[list[i].id]))]_vars

\* C14's case: findAll listed a table of two rows.
C14_Witness ==
    /\ LastStatus("getUsers", 200)
    /\ Cardinality(DOMAIN users) = 2
    /\ Len(last[1].service[1].responseObject.users) = 2

\* C15: the envelope returned after a repository call raised does not depend
\* on the error: whichever error had been raised at that step, the service
\* envelope and the response body would be the ones that were returned.
C15_EnvelopeIgnoresTheError ==
    [][\A c \in Clients :
        (/\ pc[c] \notin {"idle", "unhandled"}
         /\ pc'[c] = "idle"
         /\ last'[1].threw)
        => \A ex \in Errors :
              /\ last'[1].service = ServiceCaught(req[c].route, ex)
              /\ last'[1].response =
                    HandleServiceResponse(ServiceCaught(req[c].route, ex)[1])]_vars

\* C15's case: the query of findAll failed and the request was answered 500.
C15_Witness ==
    /\ LastStatus("getUsers", 500)
    /\ last[1].threw
    /\ last[1].issued = <<"SELECT_ALL">>

\* the rows that hold exactly this email
RowsWithEmail(table, email) == {i \in DOMAIN table : table[i].email = email}

\* C16: a create that has passed the service's email check and whose INSERT
\* runs when another request has stored the same email in between is
\* refused by the table's unique constraint: it is answered 500 "An error
\* occurred while creating user.", not 201 and not 409, it adds no row, and
\* exactly one row holds the email afterwards.
C16_ConcurrentCreatesOneRow ==
    [][\A c \in Clients :
        (StepAt(c, "create.createAsync.insert") /\ EmailTaken(req[c].body.email))
        => /\ pc'[c] = "idle"
           /\ last'[1].req = req[c]
           /\ last'[1].issued = <<"SELECT_ALL", "INSERT">>
           /\ last'[1].threw
           /\ last'[1].service = <<[success |-> FALSE,
                                    message |-> "An error occurred while creating user.",
                                    responseObject |-> Null,
                                    statusCode |-> 500]>>
           /\ users' = users
           /\ Cardinality(RowsWithEmail(users', req[c].body.email)) = 1]_vars

\* C16's case: of two creates with the same email that both passed the
\* check, one was answered 201 and the other, whose values fit their
\* columns, 500; one row holds the email.
C16_Witness ==
    /\ LastStatus("createUser", 500)
    /\ last[1].issued = <<"SELECT_ALL", "INSERT">>
    /\ FitsText(last[1].req.body.name)
    /\ \E i \in DOMAIN created :
          /\ created[i] # <<>>
          /\ created[i][1].user.email = last[1].req.body.email
    /\ Cardinality(RowsWithEmail(users, last[1].req.body.email)) = 1

\* C17: an id assigned to a created user is never assigned again, also after
\* that user was deleted: the counter never goes back, every id of a stored
\* or deleted row lies below it, and an INSERT that stores a row gives it
\* the counter's value, which no stored or deleted row has had.
C17_IdNeverReused ==
    [][/\ autoInc' >= autoInc
       /\ \A i \in DOMAIN users \cup gone : i < autoInc
       /\ \A c \in Clients :
            (StepAt(c, "create.createAsync.insert") /\ pc'[c] = "create.createAsync.select")
            => /\ insertId'[c] = autoInc
               /\ insertId'[c] \notin DOMAIN users \cup gone
               /\ autoInc' = autoInc + 1
               /\ DOMAIN users' = DOMAIN users \cup {insertId'[c]}
               /\ users'[insertId'[c]].id = insertId'[c]]_vars

\* C17's case: user 1 was created and deleted, and the user created next got
\* id 2.
C17_Witness ==
    /\ gone = {1}
    /\ DOMAIN users = {2}
    /\ LastStatus("createUser", 201)
    /\ last[1].service[1].responseObject.user.id = 2

\* C18: when the existence check of update or delete found the row and the
\* repository mutation then reports that no row was affected (the UPDATE
\* matches no row or the re-read finds none, so updateAsync returns null;
\* the DELETE removes no row, so deleteAsync returns false), update answers
\* 500 "Failed to update user" and delete 500 "Failed to delete user", each
\* with a null payload and success false.
C18_NoRowAffectedIs500 ==
    [][\A c \in Clients :
        /\ (/\ \/ StepAt(c, "update.updateAsync.update")
               \/ StepAt(c, "update.updateAsync.select")
            /\ Id(c) \notin DOMAIN users)
           => /\ pc'[c] = "idle"
              /\ last'[1].req = req[c]
              /\ ~last'[1].threw
              /\ last'[1].service = <<[success |-> FALSE,
                                       message |-> "Failed to update user",
                                       responseObject |-> Null,
                                       statusCode |-> 500]>>
              /\ users' = users
        /\ (StepAt(c, "delete.deleteAsync") /\ Id(c) \notin DOMAIN users)
           => /\ pc'[c] = "idle"
              /\ last'[1].req = req[c]
              /\ ~last'[1].threw
              /\ last'[1].service = <<[success |-> FALSE,
                                       message |-> "Failed to delete user",
                                       responseObject |-> Null,
                                       statusCode |-> 500]>>
              /\ users' = users]_vars

\* C18's case: an update passed its existence check, the row was deleted,
\* and the UPDATE that matched no row was answered 500 "Failed to update
\* user".
C18_Witness ==
    /\ LastStatus("updateUser", 500)
    /\ ~last[1].threw
    /\ last[1].service[1].message = "Failed to update user"
    /\ last[1].issued = <<"SELECT_BY_ID", "UPDATE">>
    /\ ParseInt(last[1].req.id) \in gone

\* another client is handling a delete of the same id, or a delete of it
\* has been answered 204
DeleteBeside(c) ==
    \/ Id(c) \in gone
    \/ \E d \in Clients \ {c} :
          /\ pc[d] \in {"delete.findByIdAsync", "delete.deleteAsync"}
          /\ Id(d) = Id(c)

\* C19: of two delete requests for the same id whose handling overlaps, a DELETE
\* that finds the row removes it and is answered 204 "User deleted
\* successfully", and then the id has not been answered 204 before; a DELETE
\* that finds no row is answered 500 "Failed to delete user"; an existence
\* check that finds no row is answered 404 "User not found"; the last two
\* remove nothing.  A deleted id never comes back, so the row is removed
\* once and one request gets the 204.
C19_ConcurrentDeletesOne204 ==
    [][/\ \A i \in gone : i \notin DOMAIN users
       /\ \A c \in Clients :
            DeleteBeside(c)
            => /\ (StepAt(c, "delete.deleteAsync") /\ Id(c) \in DOMAIN users)
                  => /\ pc'[c] = "idle"
                     /\ last'[1].req = req[c]
                     /\ last'[1].service = <<[success |-> TRUE,
                                              message |-> "User deleted successfully",
                                              responseObject |-> Null,
                                              statusCode |-> 204]>>
                     /\ Id(c) \notin gone
                     /\ DOMAIN users' = DOMAIN users \ {Id(c)}
               /\ (StepAt(c, "delete.deleteAsync") /\ Id(c) \notin DOMAIN users)
                  => /\ pc'[c] = "idle"
                     /\ last'[1].req = req[c]
                     /\ last'[1].service[1].statusCode = 500
                     /\ last'[1].service[1].message = "Failed to delete user"
                     /\ users' = users
               /\ (StepAt(c, "delete.findByIdAsync") /\ Id(c) \notin DOMAIN users)
                  => /\ pc'[c] = "idle"
                     /\ last'[1].req = req[c]
                     /\ last'[1].service[1].statusCode = 404
                     /\ last'[1].service[1].message = "User not found"
                     /\ users' = users]_vars

\* C19's case: two deletes of the same row passed the existence check; one
\* was answered 204 and the other 500 "Failed to delete user".
C19_Witness ==
    /\ LastStatus("deleteUser", 500)
    /\ last[1].service[1].message = "Failed to delete user"
    /\ last[1].issued = <<"SELECT_BY_ID", "DELETE">>
    /\ ParseInt(last[1].req.id) \in gone

\* C20: whenever update is answered 200 "User updated successfully", every
\* field its body supplies has, in the returned record, the value the body
\* supplied, in every interleaving with other requests on the same id.
C20_UpdateReturnsSupplied ==
    [][\A c \in Clients :
        (/\ StepAt(c, "update.updateAsync.select")
         /\ pc'[c] = "idle"
         /\ last'[1].service[1].statusCode = 200)
        => LET data == req[c].body
               returned == last'[1].service[1].responseObject.user
           IN /\ "name" \in data.has => returned.name = data.name
              /\ "email" \in data.has => returned.email = data.email
              /\ "age" \in data.has => returned.age = <<data.age>>]_vars

\* C21: for each of the five controller handlers, the HTTP response has the
\* status code of the envelope the service returned and a body equal to
\* that envelope, with success, message, payload and statusCode unchanged.
C21_ResponseIsTheEnvelope ==
    (last # <<>> /\ last[1].service # <<>>)
    => /\ last[1].response.status = last[1].service[1].statusCode
       /\ last[1].response.body = last[1].service

\* the statement client c awaits fails in this step for a reason the tables
\* determine: the INSERT or the UPDATE is rejected
StatementRejected(c) ==
    \/ /\ StepAt(c, "create.createAsync.insert")
       /\ SqlInsert(users, autoInc, req[c].body.name, req[c].body.email,
                    IF "age" \in req[c].body.has THEN <<req[c].body.age>> ELSE <<>>,
                    clock, strict, collation).error # ""
    \/ /\ StepAt(c, "update.updateAsync.update")
       /\ SqlUpdate(users, Id(c), req[c].body, clock, strict, collation).error # ""

\* C22: a repository method that gets an error from a database query raises
\* that same error to its caller: the method does not return a value, the
\* service method's catch block runs, and a rejected statement is never
\* followed by the method's normal continuation.
C22_RepositoryRaisesTheSameError ==
    [][\A c \in Clients :
          /\ (pc[c] # "idle" /\ pc'[c] # pc[c] /\ thrown' # <<>>)
             => /\ thrown'[1].raised = thrown'[1].caught
                /\ pc'[c] = "idle"
                /\ last'[1].threw
                /\ last'[1].req = req[c]
                /\ last'[1].service = ServiceCatch(req[c].route)
          /\ StatementRejected(c) => thrown' # <<>>]_vars

\* a lost connection during the SELECT of findByIdAsync was raised to
\* UserService.findById
C22_Witness ==
    /\ thrown # <<>>
    /\ thrown[1].caught = "PROTOCOL_CONNECTION_LOST"
    /\ LastIs("getUser")
    /\ last[1].threw
    /\ last[1].issued = <<"SELECT_BY_ID">>

\* C23: every connection that testConnection, initializeDatabase or
\* seedDatabase acquires is released before the function returns or raises,
\* on every path, including the paths where a query fails.
C23_ConnectionsReleased ==
    boot.at \in {"returned", "raised"} => held = 0

\* the statements that write to the table
WriteStatements == {"INSERT", "UPDATE", "DELETE"}

\* in this step a request is answered: validateRequest turns it away, or
\* the service method of some client returns
Answered ==
    \/ started' # started /\ pc' = pc
    \/ \E c \in Clients : pc[c] # "idle" /\ pc'[c] = "idle"

\* C24: a request that ends with status 400, 404 or 409 has issued no INSERT,
\* UPDATE or DELETE statement: every statement it sent was a SELECT, none of
\* its steps changed a row or the AUTO_INCREMENT counter, and so it leaves
\* the table as it would be had the request not been made.
C24_RefusedRequestWritesNothing ==
    [][/\ (Answered /\ last'[1].response.status \in {BAD_REQUEST, NOT_FOUND, CONFLICT})
          => /\ \A k \in 1..Len(last'[1].issued) : last'[1].issued[k] \notin WriteStatements
             /\ users' = users
             /\ autoInc' = autoInc
       /\ \A c \in Clients :
            (pc[c] # "idle" /\ pc'[c] # pc[c] /\ StatementAt(pc[c]) \notin WriteStatements)
            => (users' = users /\ autoInc' = autoInc)]_vars

\* a delete of an id that is not in a table that has rows was answered 404
\* after its one SELECT
C24_Witness ==
    /\ LastStatus("deleteUser", NOT_FOUND)
    /\ last[1].issued = <<"SELECT_BY_ID">>
    /\ last[1].response.status = NOT_FOUND
    /\ DOMAIN users # {}

====
